---- MODULE Spec2Model ----
(***************************************************************************)
(* A model of the xwd crossword library: the AcrossLite (".puz") decoder   *)
(* and checksum verifier (type AcrossLite), the grid model (type Puzzle)   *)
(* and the rolling checksum cksum, all of package xwd.                     *)
(*                                                                         *)
(* Go strings and byte slices are sequences of bytes (0..255); a grid is a *)
(* sequence of rows.  A bytes.Buffer over data is the pair (data, off):    *)
(* off bytes have been consumed and data[off+1] is the next byte.          *)
(***************************************************************************)
EXTENDS Integers, Sequences, FiniteSets, TLC

VARIABLES
    p,      \* the caller's Puzzle
    a,      \* the AcrossLite provider of the last Load, with the outcome of Parse
    data,   \* the byte buffer handed to Load
    fd,     \* what the writer of the file put into it, and the damage done to it since
    res,    \* the last call: its name, its argument and what it returned
    pc,     \* "ready" | "returned" | "crashed" (a Go run-time panic unwound the call)
    ck      \* the arguments and the results of the cksum calls

vars == <<p, a, data, fd, res, pc, ck>>

----------------------------------------------------------------------------
\* Bounds of the model

\* grids have up to MaxCells cells (and up to MaxCells rows, up to MaxCells columns)
MaxCells == 4
\* files declare up to MaxClues clues
MaxClues == 5
\* the byte sequences given to cksum have up to MaxLen bytes
MaxLen == 3

----------------------------------------------------------------------------
\* Arithmetic on machine integers

Min(x, y) == IF x <= y THEN x ELSE y

\* x ^ y on 8-bit values
RECURSIVE XorBits(_, _, _)
XorBits(x, y, n) ==
    IF n = 0 THEN 0
    ELSE ((x + y) % 2) + 2 * XorBits(x \div 2, y \div 2, n - 1)

Xor8(x, y) == XorBits(x, y, 8)

\* a little-endian uint16 from its two bytes
U16(lo, hi) == lo + 256 * hi

\* a shift that drops the low bit where cksum carries it into the top bit
cksumStepNoCarry(sum, b) == ((sum \div 2) + b) % 65536

\* One iteration of the loop of cksum: uint16 arithmetic wraps at 2^16.
cksumStep(sum, b) ==
    LET r == IF sum % 2 # 0 THEN (sum \div 2) + 32768 ELSE sum \div 2
    IN  (r + b) % 65536

RECURSIVE cksumFrom(_, _, _)
cksumFrom(bytes, i, sum) ==
    IF i > Len(bytes) THEN sum
    ELSE cksumFrom(bytes, i + 1, cksumStep(sum, bytes[i]))

cksum(bytes, sum) == cksumFrom(bytes, 1, sum)

----------------------------------------------------------------------------
\* Reads from a bytes.Buffer

\* error of binary.Read (io.ReadFull) of n bytes at offset off; "nil" is no error
ReadErr(bytes, off, n) ==
    IF Len(bytes) - off >= n THEN "nil"
    ELSE IF Len(bytes) - off = 0 THEN "EOF"
    ELSE "unexpected EOF"

\* offset after buf.Next(n): Next returns what is there when fewer than n bytes are left
BufNext(bytes, off, n) == Min(off + n, Len(bytes))

ByteAt(bytes, i) == bytes[i + 1]

\* the Go slice s[lo:hi] of a slice whose capacity is its length
Slice(s, lo, hi) == SubSeq(s, lo + 1, hi)

SliceOK(s, lo, hi) == 0 <= lo /\ lo <= hi /\ hi <= Len(s)

\* index (from 0) of the first NUL at or after off, or Len(bytes) when there is none
RECURSIVE IndexNul(_, _)
IndexNul(bytes, off) ==
    IF off >= Len(bytes) THEN Len(bytes)
    ELSE IF bytes[off + 1] = 0 THEN off
    ELSE IndexNul(bytes, off + 1)

\* readString: buf.ReadString(0) with the NUL chopped off; when no NUL is left
\* ReadString returns the bytes that remain together with io.EOF, and readString
\* passes both on
readString(bytes, off) ==
    LET i == IndexNul(bytes, off)
    IN  IF i >= Len(bytes)
        THEN [out |-> Slice(bytes, off, Len(bytes)), err |-> "EOF", off |-> Len(bytes)]
        ELSE [out |-> Slice(bytes, off, i), err |-> "nil", off |-> i + 1]

\* readMatrix: rows reads of cols bytes each
RECURSIVE readRows(_, _, _, _, _)
readRows(bytes, off, rows, cols, acc) ==
    IF Len(acc) = rows THEN [out |-> acc, err |-> "nil", off |-> off]
    ELSE IF ReadErr(bytes, off, cols) # "nil"
         THEN [out |-> <<>>, err |-> ReadErr(bytes, off, cols), off |-> Len(bytes)]
         ELSE readRows(bytes, off + cols, rows, cols,
                       Append(acc, Slice(bytes, off, off + cols)))

readMatrix(bytes, off, rows, cols) == readRows(bytes, off, rows, cols, <<>>)

----------------------------------------------------------------------------
\* AcrossLite

\* "ACROSS&DOWN\x00"
Magic == <<65, 67, 82, 79, 83, 83, 38, 68, 79, 87, 78, 0>>

\* "ICHEATED"
Mask == <<73, 67, 72, 69, 65, 84, 69, 68>>

\* &AcrossLite{}: every field at its zero value; err is what Parse returned
ZeroAcrossLite ==
    [Data |-> <<>>, Cols |-> 0, Rows |-> 0, Title |-> <<>>, Author |-> <<>>,
     Copyright |-> <<>>, Notes |-> <<>>, Solution |-> <<>>, Clues |-> <<>>,
     CksumFil |-> 0, CksumCib |-> 0, CksumMsk |-> <<0, 0, 0, 0, 0, 0, 0, 0>>,
     CksumScr |-> 0, err |-> "nil"]

\* Sniff: skip two bytes, Read into twelve zeroed bytes.  Buffer.Read fails (io.EOF)
\* only on an empty buffer; otherwise it copies the bytes that are there and
\* returns a nil error, and the rest of magic keeps its zeros.
Sniff(bytes) ==
    LET off   == BufNext(bytes, 0, 2)
        n     == Min(12, Len(bytes) - off)
        magic == [i \in 1..12 |-> IF i <= n THEN bytes[off + i] ELSE 0]
    IN  /\ Len(bytes) - off > 0
        /\ magic = Magic

\* The clue loop of Parse: n calls of readString, stopping at the first error
RECURSIVE readClues(_, _, _, _)
readClues(bytes, off, n, acc) ==
    IF Len(acc) = n THEN [out |-> acc, err |-> "nil", off |-> off]
    ELSE LET r == readString(bytes, off)
         IN  IF r.err # "nil" THEN [out |-> acc, err |-> r.err, off |-> r.off]
             ELSE readClues(bytes, r.off, n, Append(acc, r.out))

\* One text field of Verify (title, author, copyright): the field and its NUL are
\* summed when the field is not empty; the cursor then steps over the NUL.
\* st is [cFile, cPart, c, panic]; d is the buffer after the two grids.
VerifyField(st, d, str) ==
    IF st.panic THEN st
    ELSE IF Len(str) > 0
    THEN IF ~SliceOK(d, st.c, st.c + Len(str) + 1) THEN [st EXCEPT !.panic = TRUE]
         ELSE [st EXCEPT !.cFile = cksum(Slice(d, st.c, st.c + Len(str) + 1), st.cFile),
                         !.cPart = cksum(Slice(d, st.c, st.c + Len(str) + 1), st.cPart),
                         !.c = st.c + Len(str) + 1]
    ELSE [st EXCEPT !.c = st.c + 1]

\* The clue loop of Verify: each clue is summed without its NUL
RECURSIVE VerifyClues(_, _, _, _)
VerifyClues(st, d, clues, i) ==
    IF st.panic \/ i > Len(clues) THEN st
    ELSE IF ~SliceOK(d, st.c, st.c + Len(clues[i])) THEN [st EXCEPT !.panic = TRUE]
    ELSE VerifyClues(
            [st EXCEPT !.cFile = cksum(Slice(d, st.c, st.c + Len(clues[i])), st.cFile),
                       !.cPart = cksum(Slice(d, st.c, st.c + Len(clues[i])), st.cPart),
                       !.c = st.c + Len(clues[i]) + 1],
            d, clues, i + 1)

\* The notes of Verify: summed, with their NUL, when the file checksum is not yet
\* the declared one and the notes are not empty
VerifyNotes(st, d, x) ==
    IF st.panic THEN st
    ELSE IF st.cFile # x.CksumFil /\ Len(x.Notes) > 0
    THEN IF ~SliceOK(d, st.c, st.c + Len(x.Notes) + 1) THEN [st EXCEPT !.panic = TRUE]
         ELSE [st EXCEPT !.cFile = cksum(Slice(d, st.c, st.c + Len(x.Notes) + 1), st.cFile),
                         !.cPart = cksum(Slice(d, st.c, st.c + Len(x.Notes) + 1), st.cPart)]
    ELSE st

\* cMasked: "ICHEATED" against the low bytes, then the high bytes
Masked(cCib, cSol, cGrid, cPart) ==
    << Xor8(Mask[1], cCib % 256),      Xor8(Mask[2], cSol % 256),
       Xor8(Mask[3], cGrid % 256),     Xor8(Mask[4], cPart % 256),
       Xor8(Mask[5], cCib \div 256),   Xor8(Mask[6], cSol \div 256),
       Xor8(Mask[7], cGrid \div 256),  Xor8(Mask[8], cPart \div 256) >>

\* Verify: "true", "false", or "panic" when a slice expression is out of range
Verify(x) ==
    LET size == x.Cols * x.Rows
        D    == x.Data
    IN  IF \/ ~SliceOK(D, 44, 52)
           \/ ~SliceOK(D, 52, 52 + size)
           \/ ~SliceOK(D, 52 + size, 52 + size + size)
        THEN "panic"
        ELSE
        LET dSol  == Slice(D, 52, 52 + size)
            dGrid == Slice(D, 52 + size, 52 + size + size)
            cCib  == cksum(Slice(D, 44, 52), 0)
            cSol  == cksum(dSol, 0)
            cGrid == cksum(dGrid, 0)
            d     == Slice(D, 52 + size + size, Len(D))
            s0    == [cFile |-> cksum(dGrid, cksum(dSol, cCib)), cPart |-> 0,
                      c |-> 0, panic |-> FALSE]
            s1    == VerifyField(s0, d, x.Title)
            s2    == VerifyField(s1, d, x.Author)
            s3    == VerifyField(s2, d, x.Copyright)
            s4    == VerifyClues(s3, d, x.Clues, 1)
            s5    == VerifyNotes(s4, d, x)
        IN  IF cCib # x.CksumCib THEN "false"
            ELSE IF s5.panic THEN "panic"
            ELSE IF s5.cFile # x.CksumFil THEN "false"
            ELSE IF Masked(cCib, cSol, cGrid, s5.cPart) # x.CksumMsk THEN "false"
            ELSE "true"

\* Parse: the fixed header, the two grids, the strings, then Verify.  The result is
\* the provider with err set to what Parse returned ("panic": Verify did not return).
ParseBody(bytes, x, off, numClues) ==
    LET m   == readMatrix(bytes, off, x.Rows, x.Cols)
        x1  == [x EXCEPT !.Solution = m.out]
        o1  == BufNext(bytes, m.off, x.Rows * x.Cols)
        t   == readString(bytes, o1)
        x2  == [x1 EXCEPT !.Title = t.out]
        au  == readString(bytes, t.off)
        x3  == [x2 EXCEPT !.Author = au.out]
        cp  == readString(bytes, au.off)
        x4  == [x3 EXCEPT !.Copyright = cp.out]
        cl  == readClues(bytes, cp.off, numClues, <<>>)
        x5  == [x4 EXCEPT !.Clues = cl.out]
        nt  == readString(bytes, cl.off)
        x6  == [x5 EXCEPT !.Notes = nt.out]
        v   == Verify(x6)
    IN  IF m.err # "nil" THEN [x1 EXCEPT !.err = m.err]
        ELSE IF t.err # "nil" THEN [x2 EXCEPT !.err = t.err]
        ELSE IF au.err # "nil" THEN [x3 EXCEPT !.err = au.err]
        ELSE IF cp.err # "nil" THEN [x4 EXCEPT !.err = cp.err]
        ELSE IF cl.err # "nil" THEN [x5 EXCEPT !.err = cl.err]
        ELSE IF nt.err # "nil" /\ nt.err # "EOF" THEN [x6 EXCEPT !.err = nt.err]
        ELSE IF v = "panic" THEN [x6 EXCEPT !.err = "panic"]
        ELSE IF v = "false" THEN [x6 EXCEPT !.err = "checksums aren't correct"]
        ELSE x6

\* a test that looks at the low byte of the tag only
IsScrambledLowByte(tag) == tag % 256 # 0

\* the test of the scrambled tag, a uint16
IsScrambled(tag) == tag # 0

Parse(bytes) ==
    LET x0  == [ZeroAcrossLite EXCEPT !.Data = bytes]
        \* offsets after each read or skip, given that the reads before it succeeded
        oMagic == BufNext(bytes, 2, 12)
        oCib   == oMagic + 2
        oMsk   == oCib + 8
        oJunk  == BufNext(bytes, BufNext(bytes, oMsk, 4), 2)
        oScr   == oJunk + 2
        oRes   == BufNext(bytes, oScr, 12)
        oCols  == oRes + 1
        oRows  == oCols + 1
        oNum   == oRows + 2
        oMask  == BufNext(bytes, oNum, 2)
        oTag   == oMask + 2
        x1  == [x0 EXCEPT !.CksumFil = U16(ByteAt(bytes, 0), ByteAt(bytes, 1))]
        x2  == [x1 EXCEPT !.CksumCib = U16(ByteAt(bytes, oMagic), ByteAt(bytes, oMagic + 1))]
        x3  == [x2 EXCEPT !.CksumMsk = Slice(bytes, oCib, oMsk)]
        x4  == [x3 EXCEPT !.CksumScr = U16(ByteAt(bytes, oJunk), ByteAt(bytes, oJunk + 1))]
        x5  == [x4 EXCEPT !.Cols = ByteAt(bytes, oRes), !.Rows = ByteAt(bytes, oCols)]
        numClues  == U16(ByteAt(bytes, oRows), ByteAt(bytes, oRows + 1))
        scrambled == U16(ByteAt(bytes, oMask), ByteAt(bytes, oMask + 1))
    IN  IF ReadErr(bytes, 0, 2) # "nil" THEN [x0 EXCEPT !.err = ReadErr(bytes, 0, 2)]
        ELSE IF ReadErr(bytes, oMagic, 2) # "nil"
             THEN [x1 EXCEPT !.err = ReadErr(bytes, oMagic, 2)]
        ELSE IF ReadErr(bytes, oCib, 8) # "nil"
             THEN [x2 EXCEPT !.err = ReadErr(bytes, oCib, 8)]
        ELSE IF ReadErr(bytes, oJunk, 2) # "nil"
             THEN [x3 EXCEPT !.err = ReadErr(bytes, oJunk, 2)]
        ELSE IF ReadErr(bytes, oRes, 1) # "nil"
             THEN [x4 EXCEPT !.err = ReadErr(bytes, oRes, 1)]
        ELSE IF ReadErr(bytes, oCols, 1) # "nil"
             THEN [x4 EXCEPT !.err = ReadErr(bytes, oCols, 1)]
        ELSE IF ReadErr(bytes, oRows, 2) # "nil"
             THEN [x5 EXCEPT !.err = ReadErr(bytes, oRows, 2)]
        ELSE IF ReadErr(bytes, oMask, 2) # "nil"
             THEN [x5 EXCEPT !.err = ReadErr(bytes, oMask, 2)]
        ELSE IF IsScrambled(scrambled)
             THEN [x5 EXCEPT !.err = "no support yet for scrambled puzzles"]
        ELSE ParseBody(bytes, x5, oTag, numClues)

----------------------------------------------------------------------------
\* Puzzle

\* P_BLACK, "."
Black == 46

\* &Puzzle{}: a nil slice is an empty sequence, a nil map an empty set of entries
ZeroPuzzle ==
    [Cols |-> 0, Rows |-> 0, Title |-> <<>>, Author |-> <<>>, Copyright |-> <<>>,
     Notes |-> <<>>, solution |-> <<>>, cellCoords |-> {},
     cluesAcross |-> <<>>, cluesDown |-> <<>>]

\* Clue{Num: c}
NewClue(c) == [Num |-> c, Clue |-> <<>>]

isBlackCell(q, row, col) == q.solution[row + 1][col + 1] = Black

\* an across test that does not look at the cell to the right
isAcrossCellNoRight(q, row, col) ==
    IF isBlackCell(q, row, col) THEN FALSE
    ELSE col = 0 \/ isBlackCell(q, row, col - 1)

isAcrossCell(q, row, col) ==
    IF isBlackCell(q, row, col) THEN FALSE
    ELSE /\ (col = 0 \/ isBlackCell(q, row, col - 1))
         /\ (col + 1 < q.Cols /\ ~isBlackCell(q, row, col + 1))

isDownCell(q, row, col) ==
    IF isBlackCell(q, row, col) THEN FALSE
    ELSE /\ (row = 0 \/ isBlackCell(q, row - 1, col))
         /\ (row + 1 < q.Rows /\ ~isBlackCell(q, row + 1, col))

\* The body of the two loops of SetSolution for the cell (i, j), c being the counter
NumberCell(q, i, j, c) ==
    LET across == isAcrossCell(q, i, j)
        down   == isDownCell(q, i, j)
    IN  [q EXCEPT
           !.cellCoords  = IF across \/ down
                           THEN @ \cup {[coords |-> <<i, j>>, num |-> c]} ELSE @,
           !.cluesAcross = IF across THEN Append(@, NewClue(c)) ELSE @,
           !.cluesDown   = IF down THEN Append(@, NewClue(c)) ELSE @]

\* loops whose counter moves on at every cell, numbered or not
RECURSIVE NumberFromEveryCell(_, _, _)
NumberFromEveryCell(q, k, c) ==
    IF k >= q.Rows * q.Cols THEN q
    ELSE NumberFromEveryCell(NumberCell(q, k \div q.Cols, k % q.Cols, c), k + 1, c + 1)

\* The two loops of SetSolution, from the k-th cell in row-major order on
RECURSIVE NumberFrom(_, _, _)
NumberFrom(q, k, c) ==
    IF k >= q.Rows * q.Cols THEN q
    ELSE LET i == k \div q.Cols
             j == k % q.Cols
         IN  NumberFrom(NumberCell(q, i, j, c), k + 1,
                        IF isAcrossCell(q, i, j) \/ isDownCell(q, i, j) THEN c + 1 ELSE c)

\* checks that let a row longer than Cols through
GridErrShortRows(q, grid) ==
    IF Len(grid) # q.Rows THEN "grid should contain as many rows as the puzzle"
    ELSE IF \E i \in 1..Len(grid) : Len(grid[i]) < q.Cols
         THEN "grid rows should contain as many columns as the puzzle"
    ELSE "nil"

\* the two checks of SetSolution: the error, or "nil"
GridErr(q, grid) ==
    IF Len(grid) # q.Rows THEN "grid should contain as many rows as the puzzle"
    ELSE IF \E i \in 1..Len(grid) : Len(grid[i]) # q.Cols
         THEN "grid rows should contain as many columns as the puzzle"
    ELSE "nil"

\* SetSolution: [p |-> the puzzle after the call, err |-> what it returned]
SetSolution(q, grid) ==
    IF GridErr(q, grid) # "nil" THEN [p |-> q, err |-> GridErr(q, grid)]
    ELSE [p   |-> NumberFrom([q EXCEPT !.solution = grid, !.cellCoords = {},
                                       !.cluesAcross = <<>>, !.cluesDown = <<>>], 0, 0),
          err |-> "nil"]

\* string(b) of a byte b: the UTF-8 encoding of the code point b, one byte below
\* 0x80 and two bytes from there on
StringOfByte(b) ==
    IF b < 128 THEN <<b>> ELSE <<192 + (b \div 64), 128 + (b % 64)>>

\* the zero Cell
NoCell == [Black |-> FALSE, Num |-> 0, Coords |-> <<0, 0>>, Solution |-> <<>>]

\* a lookup that gives the zero value of the map for a cell without a number
NumAtOrZero(q, i, j) ==
    IF \E e \in q.cellCoords : e.coords = <<i, j>>
    THEN (CHOOSE e \in q.cellCoords : e.coords = <<i, j>>).num
    ELSE 0

\* the number cellCoords holds for the coordinates, or -1
NumAt(q, i, j) ==
    IF \E e \in q.cellCoords : e.coords = <<i, j>>
    THEN (CHOOSE e \in q.cellCoords : e.coords = <<i, j>>).num
    ELSE -1

\* Cell: [cell, err, panic]; indexing a solution that has no byte at (i, j) is a
\* run-time panic
Cell(q, i, j) ==
    IF i < 0 \/ i >= q.Rows \/ j < 0 \/ j >= q.Cols
    THEN [cell |-> NoCell, panic |-> FALSE,
          err |-> "the provided coordinates are out of bounds for this puzzle"]
    ELSE IF i >= Len(q.solution) \/ j >= Len(q.solution[i + 1])
    THEN [cell |-> NoCell, err |-> "panic", panic |-> TRUE]
    ELSE [cell  |-> [Black    |-> isBlackCell(q, i, j),
                     Num      |-> NumAt(q, i, j),
                     Coords   |-> <<i, j>>,
                     Solution |-> IF isBlackCell(q, i, j) THEN <<>>
                                  ELSE StringOfByte(q.solution[i + 1][j + 1])],
          err   |-> "nil",
          panic |-> FALSE]

\* a distribution that fills the across list before it looks at the down list
RECURSIVE loadCluesAcrossFirst(_, _, _, _, _)
loadCluesAcrossFirst(q, clues, i, aIdx, dIdx) ==
    IF i > Len(clues) THEN [p |-> q, panic |-> FALSE]
    ELSE IF aIdx < Len(q.cluesAcross)
    THEN loadCluesAcrossFirst([q EXCEPT !.cluesAcross[aIdx + 1].Clue = clues[i]],
                              clues, i + 1, aIdx + 1, dIdx)
    ELSE IF dIdx < Len(q.cluesDown)
    THEN loadCluesAcrossFirst([q EXCEPT !.cluesDown[dIdx + 1].Clue = clues[i]],
                              clues, i + 1, aIdx, dIdx + 1)
    ELSE [p |-> q, panic |-> TRUE]

\* a distribution that takes the down slot when both front slots have one number
RECURSIVE loadCluesDownFirst(_, _, _, _, _)
loadCluesDownFirst(q, clues, i, aIdx, dIdx) ==
    IF i > Len(clues) THEN [p |-> q, panic |-> FALSE]
    ELSE IF dIdx >= Len(q.cluesDown)
    THEN IF aIdx >= Len(q.cluesAcross) THEN [p |-> q, panic |-> TRUE]
         ELSE loadCluesDownFirst([q EXCEPT !.cluesAcross[aIdx + 1].Clue = clues[i]],
                                 clues, i + 1, aIdx + 1, dIdx)
    ELSE IF aIdx >= Len(q.cluesAcross)
    THEN loadCluesDownFirst([q EXCEPT !.cluesDown[dIdx + 1].Clue = clues[i]],
                            clues, i + 1, aIdx, dIdx + 1)
    ELSE IF q.cluesDown[dIdx + 1].Num <= q.cluesAcross[aIdx + 1].Num
    THEN loadCluesDownFirst([q EXCEPT !.cluesDown[dIdx + 1].Clue = clues[i]],
                            clues, i + 1, aIdx, dIdx + 1)
    ELSE loadCluesDownFirst([q EXCEPT !.cluesAcross[aIdx + 1].Clue = clues[i]],
                            clues, i + 1, aIdx + 1, dIdx)

\* loadClues from the i-th clue on: [p, panic]; an index past the end of a clue
\* list is a run-time panic, and the texts stored before it stay stored
RECURSIVE loadCluesFrom(_, _, _, _, _)
loadCluesFrom(q, clues, i, aIdx, dIdx) ==
    IF i > Len(clues) THEN [p |-> q, panic |-> FALSE]
    ELSE IF dIdx >= Len(q.cluesDown)
    THEN IF aIdx >= Len(q.cluesAcross) THEN [p |-> q, panic |-> TRUE]
         ELSE loadCluesFrom([q EXCEPT !.cluesAcross[aIdx + 1].Clue = clues[i]],
                            clues, i + 1, aIdx + 1, dIdx)
    ELSE IF aIdx >= Len(q.cluesAcross)
    THEN loadCluesFrom([q EXCEPT !.cluesDown[dIdx + 1].Clue = clues[i]],
                       clues, i + 1, aIdx, dIdx + 1)
    ELSE IF q.cluesDown[dIdx + 1].Num < q.cluesAcross[aIdx + 1].Num
    THEN loadCluesFrom([q EXCEPT !.cluesDown[dIdx + 1].Clue = clues[i]],
                       clues, i + 1, aIdx, dIdx + 1)
    ELSE loadCluesFrom([q EXCEPT !.cluesAcross[aIdx + 1].Clue = clues[i]],
                       clues, i + 1, aIdx + 1, dIdx)

loadClues(x, q) == loadCluesFrom(q, x.Clues, 1, 0, 0)

\* AcrossLite.Load: copy the fields, SetSolution (its error is dropped), loadClues
ProviderLoad(x, q) ==
    LET q1 == [q EXCEPT !.Rows = x.Rows, !.Cols = x.Cols, !.Title = x.Title,
                        !.Author = x.Author, !.Copyright = x.Copyright,
                        !.Notes = x.Notes]
    IN  loadClues(x, SetSolution(q1, x.Solution).p)

\* a Load that hands the provider's fields to the puzzle before it looks at the
\* error of Parse
PuzzleLoadCommitFirst(q, bytes) ==
    IF Sniff(bytes)
    THEN LET x == Parse(bytes)
             l == ProviderLoad(x, q)
         IN  [p |-> l.p, a |-> x, sniff |-> TRUE,
              err |-> IF x.err # "nil" THEN x.err
                      ELSE IF l.panic THEN "panic" ELSE "nil"]
    ELSE [p |-> q, a |-> ZeroAcrossLite, sniff |-> FALSE,
          err |-> "no provider found that knows how to load this puzzle"]

\* Puzzle.Load: [p, a, sniff, err]; err is "panic" when the call did not return
PuzzleLoad(q, bytes) ==
    IF Sniff(bytes)
    THEN LET x == Parse(bytes)
             l == ProviderLoad(x, q)
         IN  IF x.err # "nil" THEN [p |-> q, a |-> x, sniff |-> TRUE, err |-> x.err]
             ELSE [p |-> l.p, a |-> x, sniff |-> TRUE,
                   err |-> IF l.panic THEN "panic" ELSE "nil"]
    ELSE [p |-> q, a |-> ZeroAcrossLite, sniff |-> FALSE,
          err |-> "no provider found that knows how to load this puzzle"]

----------------------------------------------------------------------------
\* The files handed to Load.  A file is described by a record f of what its
\* writer put into it, laid out as in the table at the head of Parse, and of the
\* damage done to it afterwards; Build(f) is its bytes.

RECURSIVE Flatten(_)
Flatten(ss) == IF ss = <<>> THEN <<>> ELSE Head(ss) \o Flatten(Tail(ss))

\* a text field with its NUL, or nothing when the field is empty
WithNul(str) == IF Len(str) > 0 THEN str \o <<0>> ELSE <<>>

NotesSummed(f) ==
    CASE f.ckMode = "with"    -> Len(f.notes) > 0
      [] f.ckMode = "without" -> FALSE
      [] OTHER -> /\ Len(f.notes) > 0
                  /\ f.version # <<49, 46, 50, 0>>      \* "1.2"
                  /\ f.version # <<49, 46, 50, 99>>     \* "1.2c"

\* the eight bytes at 0x2C
CibBytes(f) ==
    << f.cols, f.rows, Len(f.clues) % 256, Len(f.clues) \div 256,
       0, 0, f.tag % 256, f.tag \div 256 >>

\* the state grid of an unsolved puzzle: "." on black cells, "-" elsewhere
StateOf(sol) == [i \in 1..Len(sol) |-> IF sol[i] = Black THEN Black ELSE 45]

\* the bytes summed after the two grids
SummedText(f, notesToo) ==
    WithNul(f.title) \o WithNul(f.author) \o WithNul(f.copyright)
    \o Flatten(f.clues) \o (IF notesToo THEN WithNul(f.notes) ELSE <<>>)

RefCib(f) == cksum(CibBytes(f), 0)

RefFile(f, notesToo) ==
    cksum(SummedText(f, notesToo),
          cksum(StateOf(Flatten(f.grid)), cksum(Flatten(f.grid), RefCib(f))))

RefPart(f, notesToo) == cksum(SummedText(f, notesToo), 0)

RefMasked(f, notesToo) ==
    LET sums == << RefCib(f), cksum(Flatten(f.grid), 0),
                   cksum(StateOf(Flatten(f.grid)), 0), RefPart(f, notesToo) >>
    IN  [i \in 1..8 |-> IF i <= 4 THEN Xor8(Mask[i], sums[i] % 256)
                        ELSE Xor8(Mask[i], sums[i - 4] \div 256)]

\* the declared checksums: the reference values, one of them off when f.corrupt says so
DeclCib(f)  == IF f.corrupt = "cib" THEN (RefCib(f) + 1) % 65536 ELSE RefCib(f)

DeclFile(f) ==
    IF f.corrupt = "file" THEN (RefFile(f, NotesSummed(f)) + 1) % 65536
    ELSE RefFile(f, NotesSummed(f))

DeclMasked(f) ==
    LET m == RefMasked(f, NotesSummed(f))
    IN  IF f.corrupt = "msk" THEN [m EXCEPT ![4] = (@ + 1) % 256] ELSE m

RECURSIVE Zeros(_)
Zeros(n) == IF n = 0 THEN <<>> ELSE <<0>> \o Zeros(n - 1)

RECURSIVE NulTerminated(_)
NulTerminated(ss) ==
    IF ss = <<>> THEN <<>> ELSE Head(ss) \o <<0>> \o NulTerminated(Tail(ss))

\* the file as written
Encode(f) ==
    << DeclFile(f) % 256, DeclFile(f) \div 256 >> \o Magic
    \o << DeclCib(f) % 256, DeclCib(f) \div 256 >> \o DeclMasked(f)
    \o f.version \o Zeros(2) \o Zeros(2) \o Zeros(12)
    \o CibBytes(f)
    \o Flatten(f.grid) \o StateOf(Flatten(f.grid))
    \o f.title \o <<0>> \o f.author \o <<0>> \o f.copyright \o <<0>>
    \o NulTerminated(f.clues)
    \o f.notes \o (IF f.notesNul THEN <<0>> ELSE <<>>)

\* the damage: one magic byte replaced, the file cut short, one byte replaced
Build(f) ==
    LET e == Encode(f)
        m == IF f.magicAt >= 0 THEN [e EXCEPT ![3 + f.magicAt] = 88] ELSE e
        c == IF f.cut >= 0 THEN SubSeq(m, 1, Min(f.cut, Len(m))) ELSE m
    IN  IF f.flip # <<>> THEN [c EXCEPT ![f.flip[1] + 1] = f.flip[2]] ELSE c

----------------------------------------------------------------------------
\* The inputs

V12  == <<49, 46, 50, 0>>       \* "1.2"
V12c == <<49, 46, 50, 99>>      \* "1.2c"
V13  == <<49, 46, 51, 0>>       \* "1.3"

\* "A" and "."
CellBytes == {65, Black}

Dims == {d \in (0..MaxCells) \X (0..MaxCells) : d[1] * d[2] <= MaxCells}

\* every grid of every shape, with its declared dimensions
Shapes ==
    UNION { {[rows |-> d[1], cols |-> d[2], grid |-> g] :
                g \in [1..d[1] -> [1..d[2] -> CellBytes]]} : d \in Dims }

\* grids whose last row is one cell short
RaggedGrids ==
    { [sh.grid EXCEPT ![sh.rows] = SubSeq(@, 1, sh.cols - 1)] :
        sh \in {x \in Shapes : x.rows >= 2 /\ x.cols >= 1
                               /\ \A i \in 1..x.rows : \A j \in 1..x.cols : x.grid[i][j] = 65} }

ArgGrids == {sh.grid : sh \in Shapes} \cup RaggedGrids

\* n clue texts: "a", "b", ...
ClueTexts(n) == [k \in 1..n |-> <<96 + k>>]

\* a version 1.3 file with title "T", n clues and no notes
BaseFile(sh, n) ==
    [rows |-> sh.rows, cols |-> sh.cols, grid |-> sh.grid,
     title |-> <<84>>, author |-> <<>>, copyright |-> <<>>,
     clues |-> ClueTexts(n), notes |-> <<>>, notesNul |-> TRUE,
     version |-> V13, tag |-> 0, ckMode |-> "std", corrupt |-> "none",
     magicAt |-> -1, cut |-> -1, flip |-> <<>>]

\* one row "AA": a single across entry
Wide == [rows |-> 1, cols |-> 2, grid |-> << <<65, 65>> >>]

\* one cell "A": no entry
Single == [rows |-> 1, cols |-> 1, grid |-> << <<65>> >>]

GridFiles == {BaseFile(sh, n) : sh \in Shapes, n \in 0..MaxClues}

\* title, author, copyright
TextTriples ==
    { << <<>>, <<>>, <<>> >>, << <<84>>, <<>>, <<>> >>,
      << <<>>, <<85>>, <<>> >>, << <<84, 116>>, <<85>>, <<67>> >> }

TextFiles ==
    { [BaseFile(Wide, n) EXCEPT !.title = t[1], !.author = t[2], !.copyright = t[3],
                                !.notes = nt, !.notesNul = nn, !.version = v,
                                !.ckMode = m, !.corrupt = c] :
        n \in 0..1, t \in TextTriples, nt \in {<<>>, <<78>>}, nn \in BOOLEAN,
        v \in {V12, V12c, V13}, m \in {"std", "with", "without"},
        c \in {"none", "cib", "file", "msk"} }

\* a file with one clue and notes "N"
NotedFile == [BaseFile(Wide, 1) EXCEPT !.notes = <<78>>]

TagFiles ==
    { [NotedFile EXCEPT !.tag = tg, !.corrupt = c, !.cut = k] :
        tg \in {0, 4, 256}, c \in {"none", "file"},
        k \in 0..Len(Encode(NotedFile)) }

MagicFiles == { [NotedFile EXCEPT !.magicAt = k] : k \in 0..11 }

\* a version 1.3 file whose file checksum is the same with and without its notes "3"
CollisionFile ==
    [BaseFile(Single, 0) EXCEPT !.title = <<65, 66, 65, 66, 66, 65, 66, 66, 66>>,
                                !.notes = <<51>>]

Files == GridFiles \cup TextFiles \cup TagFiles \cup MagicFiles \cup {CollisionFile}

\* the values a damaged byte may take
FlipValues == {0, 46, 66, 255}

CkBytes == {0, 1, 255}

Seeds == {0, 1, 42, 32768, 65535}

ByteSeqs == UNION { [1..k -> CkBytes] : k \in 0..MaxLen }

\* the examples of TestCksum
CksumExamples ==
    { [data |-> <<>>, seed |-> 0], [data |-> <<1, 2, 3, 4, 5>>, seed |-> 0],
      [data |-> <<7, 7, 7, 7, 7, 7>>, seed |-> 42],
      [data |-> <<100, 100, 100>>, seed |-> 65535] }

\* two rows "AA": two across and two down entries, the first of each in one cell
Square == [rows |-> 2, cols |-> 2, grid |-> << <<65, 65>>, <<65, 65>> >>]

\* "A." over "AA": a down entry, then an across entry
Notched == [rows |-> 2, cols |-> 2, grid |-> << <<65, 46>>, <<65, 65>> >>]

\* the grid of TestCell: CATCH / .BOA. / MARNE / .T.O. / FERNY
CatchGrid ==
    << <<67, 65, 84, 67, 72>>, <<46, 66, 79, 65, 46>>, <<77, 65, 82, 78, 69>>,
       <<46, 84, 46, 79, 46>>, <<70, 69, 82, 78, 89>> >>

\* the same black cells under other letters: every letter becomes the next one
Reletter(grid) ==
    [i \in 1..Len(grid) |->
        [j \in 1..Len(grid[i]) |-> IF grid[i][j] = Black THEN Black ELSE grid[i][j] + 1]]

\* a row with a byte above 0x7F
HighGrid == << <<233, 65>> >>

\* ".A" over "AA": an across entry and a down entry that cross in their last cells
Cornered == << <<46, 65>>, <<65, 65>> >>

\* the grids given to SetSolution on a puzzle in use: the empty grid, one-row and
\* two-row grids with and without black cells, the same layouts under other
\* letters, a grid with a row too short, and the grid of TestCell
UseGrids ==
    { <<>>, Wide.grid, Reletter(Wide.grid), << <<65, 46>> >>, HighGrid,
      Square.grid, Reletter(Square.grid), Notched.grid, Reletter(Notched.grid),
      Cornered, << <<65, 65>>, <<65>> >>, CatchGrid, Reletter(CatchGrid) }

\* the declared dimensions of a puzzle in use
UseDims == {<<0, 0>>, <<1, 2>>, <<2, 2>>, <<5, 5>>}

\* the coordinates given to Cell
CellCoords == (-1)..(MaxCells + 1)

\* the files loaded into a puzzle in use: files Load takes, with as many clues as
\* the grid has entries, with fewer and with more, and files Load refuses
UseFiles ==
    { [BaseFile(Square, 4) EXCEPT !.notes = <<78>>, !.author = <<85>>],
      BaseFile(Notched, 2), BaseFile(Square, 2), BaseFile(Wide, 2), NotedFile,
      BaseFile([rows |-> 1, cols |-> 2, grid |-> HighGrid], 1),
      [NotedFile EXCEPT !.tag = 4], [NotedFile EXCEPT !.corrupt = "file"],
      [NotedFile EXCEPT !.cut = 40], [NotedFile EXCEPT !.magicAt = 0],
      [NotedFile EXCEPT !.notesNul = FALSE, !.corrupt = "file"] }

----------------------------------------------------------------------------
\* The calls

NoCall ==
    [op |-> "none", err |-> "nil", sniff |-> FALSE, grid |-> <<>>,
     at |-> <<>>, cell |-> NoCell]

NoFile == [BaseFile(Single, 0) EXCEPT !.cut = 0]

NoCksum == [data |-> <<>>, more |-> <<>>, seed |-> 0, out |-> 0, chained |-> 0, joined |-> 0]

\* puz := &Puzzle{Rows: r, Cols: c}
NewPuzzle(r, c) ==
    /\ pc # "crashed"
    /\ p' = [ZeroPuzzle EXCEPT !.Rows = r, !.Cols = c]
    /\ res' = [NoCall EXCEPT !.op = "NewPuzzle"]
    /\ pc' = "returned"
    /\ UNCHANGED <<a, data, fd, ck>>

\* err := p.SetSolution(grid)
CallSetSolution(grid) ==
    /\ pc # "crashed"
    /\ LET r == SetSolution(p, grid)
       IN  /\ p' = r.p
           /\ res' = [NoCall EXCEPT !.op = "SetSolution", !.err = r.err, !.grid = grid]
    /\ pc' = "returned"
    /\ UNCHANGED <<a, data, fd, ck>>

\* err := p.Load(data)
CallLoad ==
    /\ pc = "ready"
    /\ LET r == PuzzleLoad(p, data)
       IN  /\ p' = r.p
           /\ a' = r.a
           /\ res' = [NoCall EXCEPT !.op = "Load", !.err = r.err, !.sniff = r.sniff]
           /\ pc' = IF r.err = "panic" THEN "crashed" ELSE "returned"
    /\ UNCHANGED <<data, fd, ck>>

\* err := p.Load(data), data being the bytes of the file f
LoadFile(f) ==
    /\ pc # "crashed"
    /\ fd' = f
    /\ data' = Build(f)
    /\ \E r \in {PuzzleLoad(p, Build(f))} :
           /\ p' = r.p
           /\ a' = r.a
           /\ res' = [NoCall EXCEPT !.op = "Load", !.err = r.err, !.sniff = r.sniff]
           /\ pc' = IF r.err = "panic" THEN "crashed" ELSE "returned"
    /\ UNCHANGED ck

\* c, err := p.Cell(i, j)
CallCell(i, j) ==
    /\ pc # "crashed"
    /\ LET r == Cell(p, i, j)
       IN  /\ res' = [NoCall EXCEPT !.op = "Cell", !.err = r.err, !.at = <<i, j>>,
                                    !.cell = r.cell]
           /\ pc' = IF r.panic THEN "crashed" ELSE "returned"
    /\ UNCHANGED <<p, a, data, fd, ck>>

\* One byte of the solution grid or of the state grid of a file that was loaded
\* changes, and the file is handed to Load again.
Damage(pos, val) ==
    /\ pc = "returned"
    /\ res.op = "Load"
    /\ res.err = "nil"
    /\ fd.flip = <<>>
    /\ pos < Len(data)
    /\ val # data[pos + 1]
    /\ fd' = [fd EXCEPT !.flip = <<pos, val>>]
    /\ data' = Build(fd')
    /\ pc' = "ready"
    /\ UNCHANGED <<p, a, res, ck>>

\* sum := cksum(data, seed); then cksum(more, sum), and cksum of data and more in one
CallCksum ==
    /\ pc = "ready"
    /\ ck' = [ck EXCEPT !.out = cksum(ck.data, ck.seed),
                        !.chained = cksum(ck.more, cksum(ck.data, ck.seed)),
                        !.joined = cksum(ck.data \o ck.more, ck.seed)]
    /\ pc' = "returned"
    /\ UNCHANGED <<p, a, data, fd, res>>

----------------------------------------------------------------------------
\* The specifications

\* a Puzzle built in memory: construction and SetSolution
Init ==
    /\ p = ZeroPuzzle
    /\ a = ZeroAcrossLite
    /\ data = <<>>
    /\ fd = NoFile
    /\ res = NoCall
    /\ pc = "returned"
    /\ ck = NoCksum

Next ==
    \/ \E d \in Dims : NewPuzzle(d[1], d[2])
    \/ \E g \in ArgGrids : CallSetSolution(g)

Spec == Init /\ [][Next]_vars

\* a Puzzle in use: construction, SetSolution and Load in any order
NextUse ==
    \/ \E d \in UseDims : NewPuzzle(d[1], d[2])
    \/ \E g \in UseGrids : CallSetSolution(g)
    \/ \E f \in UseFiles : LoadFile(f)

SpecUse == Init /\ [][NextUse]_vars

\* a Puzzle read cell by cell: construction, SetSolution and Cell in any order
NextCell ==
    \/ \E d \in UseDims : NewPuzzle(d[1], d[2])
    \/ \E g \in UseGrids : CallSetSolution(g)
    \/ \E i \in CellCoords, j \in CellCoords : CallCell(i, j)

SpecCell == Init /\ [][NextCell]_vars

\* a file loaded into a new Puzzle, as the command-line tool does
InitLoad ==
    /\ p = ZeroPuzzle
    /\ a = ZeroAcrossLite
    /\ fd \in Files
    /\ data = Build(fd)
    /\ res = NoCall
    /\ pc = "ready"
    /\ ck = NoCksum

NextLoad ==
    \/ CallLoad
    \/ \E pos \in 52..(51 + 2 * fd.rows * fd.cols) : \E val \in FlipValues : Damage(pos, val)

SpecLoad == InitLoad /\ [][NextLoad]_vars

\* cksum on its own
InitCksum ==
    /\ p = ZeroPuzzle
    /\ a = ZeroAcrossLite
    /\ data = <<>>
    /\ fd = NoFile
    /\ res = NoCall
    /\ pc = "ready"
    /\ \/ \E d \in ByteSeqs, m \in ByteSeqs, s \in Seeds :
             ck = [NoCksum EXCEPT !.data = d, !.more = m, !.seed = s]
       \/ \E e \in CksumExamples, m \in ByteSeqs :
             ck = [NoCksum EXCEPT !.data = e.data, !.more = m, !.seed = e.seed]

NextCksum == CallCksum

SpecCksum == InitCksum /\ [][NextCksum]_vars

----------------------------------------------------------------------------
\* What the claims speak of

ErrNoProvider == "no provider found that knows how to load this puzzle"
ErrScrambled  == "no support yet for scrambled puzzles"
ErrChecksum   == "checksums aren't correct"

\* the buffer holds the twelve magic bytes at 0x02..0x0D
SniffWholeMagic(bytes) ==
    /\ Len(bytes) >= 14
    /\ Slice(bytes, 2, 14) = Magic

\* a call of Load has ended, by returning or by a run-time panic
Loaded == res.op = "Load" /\ pc \in {"returned", "crashed"}

\* Load returned an error value
Rejected == Loaded /\ pc = "returned" /\ res.err # "nil"

\* the file is as its writer made it
Undamaged(f) == f.magicAt < 0 /\ f.cut < 0 /\ f.flip = <<>>

\* the bytes summed after the grids, from the fields Parse decoded
ParsedText(x, notesToo) ==
    WithNul(x.Title) \o WithNul(x.Author) \o WithNul(x.Copyright)
    \o Flatten(x.Clues) \o (IF notesToo THEN WithNul(x.Notes) ELSE <<>>)

\* the three declared checksums of the buffer are the ones its bytes and the decoded
\* fields give, the notes being summed or not
MatchWith(bytes, x, notesToo) ==
    LET size == bytes[45] * bytes[46]
        sol  == Slice(bytes, 52, 52 + size)
        st   == Slice(bytes, 52 + size, 52 + size + size)
        cib  == cksum(Slice(bytes, 44, 52), 0)
        sums == << cib, cksum(sol, 0), cksum(st, 0), cksum(ParsedText(x, notesToo), 0) >>
    IN  /\ U16(bytes[15], bytes[16]) = cib
        /\ U16(bytes[1], bytes[2]) = cksum(ParsedText(x, notesToo), cksum(st, cksum(sol, cib)))
        /\ Slice(bytes, 16, 24) =
             [i \in 1..8 |-> IF i <= 4 THEN Xor8(Mask[i], sums[i] % 256)
                             ELSE Xor8(Mask[i], sums[i - 4] \div 256)]

ChecksMatch(bytes, x) ==
    \/ MatchWith(bytes, x, FALSE)
    \/ Len(x.Notes) > 0 /\ MatchWith(bytes, x, TRUE)

\* Parse got as far as Verify
ReachedVerify == Loaded /\ res.sniff /\ a.err \in {"nil", ErrChecksum, "panic"}

\* the version string of the buffer, up to its NUL
VersionOf(bytes) == Slice(bytes, 24, Min(IndexNul(bytes, 24), 28))

\* rotate right by one within 16 bits
Ror16(s) == (s \div 2) + 32768 * (s % 2)

RECURSIVE FoldRor(_, _)
FoldRor(bytes, s) ==
    IF bytes = <<>> THEN s
    ELSE FoldRor(Tail(bytes), (Ror16(s) + Head(bytes)) % 65536)

----------------------------------------------------------------------------
\* The claims

\* C1: Load returns, with success or with an error value, for every buffer: no
\* buffer makes it abort with a run-time fault.
C1_LoadAlwaysReturns == res.op = "Load" => pc # "crashed"

\* C2: Parse returns no error on a file laid out as in the table whose declared
\* checksums are the reference ones (notes summed when not empty and the version
\* is neither 1.2 nor 1.2c).
C2_RoundTrip ==
    (Loaded /\ Undamaged(fd) /\ fd.tag = 0 /\ fd.notesNul
            /\ fd.ckMode = "std" /\ fd.corrupt = "none")
    => a.err = "nil"

\* C3: when Load succeeds the declared CIB, file and masked checksums are the ones
\* the buffer gives (notes summed or not); when one of them is not, Load returns
\* the checksum error.
C3_SuccessIffChecksums ==
    ReachedVerify =>
        /\ res.err = "nil" => ChecksMatch(data, a)
        /\ ~ChecksMatch(data, a) => (pc = "returned" /\ res.err = ErrChecksum)

\* C4: a buffer that differs in one byte of the solution grid or of the state grid
\* from a buffer Load accepted is rejected by Load.
C4_GridDamageRejected ==
    (Loaded /\ fd.flip # <<>>
            /\ PuzzleLoad(ZeroPuzzle, Build([fd EXCEPT !.flip = <<>>])).err = "nil")
    => Rejected

\* C5: when the buffer ends before the NUL of the notes, the decoded notes are the
\* empty string and Load does not fail on them.
C5_TruncatedNotesEmpty ==
    (ReachedVerify /\ Undamaged(fd) /\ ~fd.notesNul) => a.Notes = <<>>

\* C6: a buffer of version 1.2 or 1.2c with notes is accepted only if its declared
\* file and masked checksums are the ones computed without the notes.
C6_OldVersionsSkipNotes ==
    (Loaded /\ res.err = "nil" /\ VersionOf(data) \in {<<49, 46, 50>>, V12c}
            /\ Len(a.Notes) > 0)
    => MatchWith(data, a, FALSE)

\* C7: cksum is the left fold of (rotate right within 16 bits, add the byte, wrap):
\* the seed on no bytes, one step on one byte, cksum(A \o B, s) = cksum(B, cksum(A, s)),
\* and the values of the examples.
C7_CksumFold ==
    pc = "returned" =>
        /\ ck.out = FoldRor(ck.data, ck.seed)
        /\ ck.data = <<>> => ck.out = ck.seed
        /\ Len(ck.data) = 1 => ck.out = (Ror16(ck.seed) + ck.data[1]) % 65536
        /\ ck.joined = ck.chained
        /\ (ck.data = <<1, 2, 3, 4, 5>> /\ ck.seed = 0) => ck.out = 4104
        /\ (ck.data = <<7, 7, 7, 7, 7, 7>> /\ ck.seed = 42) => ck.out = 28686
        /\ (ck.data = <<100, 100, 100>> /\ ck.seed = 65535) => ck.out = 49326

C7_Witness ==
    /\ pc = "returned"
    /\ ck.data = <<1, 2, 3, 4, 5>> /\ ck.seed = 0 /\ ck.more = <<255, 1>>
    /\ ck.out = 4104 /\ ck.joined = ck.chained /\ ck.joined # ck.out

\* C8: a buffer with the magic and the whole header whose scrambled tag is not zero
\* makes Load return the scrambled-puzzle error, whatever follows the header; no
\* buffer with a non-zero tag is loaded.
C8_ScrambledRejected ==
    Loaded =>
        /\ (SniffWholeMagic(data) /\ Len(data) >= 52
               /\ U16(data[51], data[52]) # 0)
           => (pc = "returned" /\ res.err = ErrScrambled)
        /\ res.err = "nil" => (Len(data) >= 52 /\ U16(data[51], data[52]) = 0)

C8_Witness ==
    /\ Loaded /\ res.err = ErrScrambled
    /\ Len(data) = 52 /\ data[51] = 0 /\ data[52] = 1

\* C9: Sniff is true exactly when the buffer holds the twelve magic bytes at
\* 0x02..0x0D, and Load returns the no-provider error for exactly the other buffers.
C9_SniffIffMagic ==
    Loaded =>
        /\ res.sniff <=> SniffWholeMagic(data)
        /\ (pc = "returned" /\ res.err = ErrNoProvider) <=> ~SniffWholeMagic(data)

\* C10: SetSolution returns an error exactly when the grid has not Rows rows or one
\* of its rows has not Cols cells, and a call that returns an error leaves the
\* solution, the cell numbers and the clue lists as they were.
C10_SetSolutionAllOrNothing ==
    [][ res'.op = "SetSolution" =>
          /\ res'.err # "nil" <=>
               (\/ Len(res'.grid) # p.Rows
                \/ \E i \in 1..Len(res'.grid) : Len(res'.grid[i]) # p.Cols)
          /\ res'.err # "nil" => p' = p
          /\ res'.err = "nil" => p'.solution = res'.grid ]_vars

C10_Witness ==
    /\ res.op = "SetSolution" /\ res.err # "nil"
    /\ Len(res.grid) = p.Rows
    /\ p.solution # <<>> /\ p.cluesAcross # <<>> /\ p.cellCoords # {}

\* the stored solution has Rows rows of Cols bytes each
ShapeOK(q) ==
    /\ Len(q.solution) = q.Rows
    /\ \A i \in 1..Len(q.solution) : Len(q.solution[i]) = q.Cols

\* C11: in every state reached by constructing a Puzzle with declared dimensions
\* and then calling SetSolution and Load any number of times, the stored solution
\* has exactly Rows rows and every row has exactly Cols characters.
C11_SolutionShape == pc # "crashed" => ShapeOK(p)

\* The reference numbering, from the black cells of a grid alone.  A layout is the
\* matrix of the grid's black cells; cells are counted row-major from 0.
Layout(grid) ==
    [i \in 1..Len(grid) |-> [j \in 1..Len(grid[i]) |-> grid[i][j] = Black]]

LayoutCols(b) == IF Len(b) = 0 THEN 0 ELSE Len(b[1])

RefAcross(b, k) ==
    LET i == k \div LayoutCols(b)
        j == k % LayoutCols(b)
    IN  /\ ~b[i + 1][j + 1]
        /\ (j = 0 \/ b[i + 1][j])
        /\ (j + 1 < LayoutCols(b) /\ ~b[i + 1][j + 2])

RefDown(b, k) ==
    LET i == k \div LayoutCols(b)
        j == k % LayoutCols(b)
    IN  /\ ~b[i + 1][j + 1]
        /\ (i = 0 \/ b[i][j + 1])
        /\ (i + 1 < Len(b) /\ ~b[i + 2][j + 1])

RefCells(b) == 0..(Len(b) * LayoutCols(b) - 1)

RefAcrossStarts(b) == {k \in RefCells(b) : RefAcross(b, k)}

RefDownStarts(b) == {k \in RefCells(b) : RefDown(b, k)}

\* the number of a cell that starts an entry: how many such cells come before it
RefNum(b, k) ==
    Cardinality({m \in RefAcrossStarts(b) \cup RefDownStarts(b) : m < k})

RefCoords(b) ==
    { [coords |-> <<k \div LayoutCols(b), k % LayoutCols(b)>>, num |-> RefNum(b, k)] :
        k \in RefAcrossStarts(b) \cup RefDownStarts(b) }

\* the numbers of the cells of S in row-major order
RefNums(b, S) ==
    [t \in 1..Cardinality(S) |->
        RefNum(b, CHOOSE k \in S : Cardinality({m \in S : m < k}) = t - 1)]

\* the numbers of a clue list, and its texts
Nums(clues) == [t \in 1..Len(clues) |-> clues[t].Num]

Texts(clues) == [t \in 1..Len(clues) |-> clues[t].Clue]

\* C12: after a successful SetSolution(grid) the cell numbers and the clue lists
\* are the reference computed from the black cells of grid alone (one counter from
\* 0, row-major, one slot with empty text per entry), whatever the puzzle held
\* before and whatever the letters; in the grid of TestCell (0,0) is 0, (0,1) is 1,
\* (2,0) is 5, and (1,2) and (4,4) have no number.
C12_NumberingIsReference ==
    (res.op = "SetSolution" /\ res.err = "nil") =>
        /\ p.cellCoords = RefCoords(Layout(res.grid))
        /\ Nums(p.cluesAcross) = RefNums(Layout(res.grid), RefAcrossStarts(Layout(res.grid)))
        /\ Nums(p.cluesDown) = RefNums(Layout(res.grid), RefDownStarts(Layout(res.grid)))
        /\ \A t \in 1..Len(p.cluesAcross) : p.cluesAcross[t].Clue = <<>>
        /\ \A t \in 1..Len(p.cluesDown) : p.cluesDown[t].Clue = <<>>
        /\ Layout(res.grid) = Layout(CatchGrid) =>
              /\ NumAt(p, 0, 0) = 0 /\ NumAt(p, 0, 1) = 1 /\ NumAt(p, 2, 0) = 5
              /\ NumAt(p, 1, 2) = -1 /\ NumAt(p, 4, 4) = -1

\* a loaded puzzle, its clues in place, was given the same layout under other letters
C12_Witness ==
    /\ res.op = "SetSolution" /\ res.err = "nil"
    /\ res.grid = Reletter(Square.grid)
    /\ p.Title # <<>> /\ Len(a.Clues) = 4
    /\ Nums(p.cluesAcross) = <<0, 2>> /\ Nums(p.cluesDown) = <<0, 1>>

\* the code point a string of one character encodes (UTF-8, below 0x800)
RuneOf(str) ==
    IF Len(str) = 1 THEN str[1] ELSE (str[1] - 192) * 64 + (str[2] - 128)

\* the number the reference gives the cell (i, j) of a grid, or -1
RefNumAt(grid, i, j) ==
    LET b == Layout(grid)
        k == i * LayoutCols(b) + j
    IN  IF RefAcross(b, k) \/ RefDown(b, k) THEN RefNum(b, k) ELSE -1

\* C13: on a puzzle whose solution was assigned, Cell(i, j) returns the
\* out-of-bounds error exactly when i < 0, i >= Rows, j < 0 or j >= Cols; otherwise
\* Black tells whether the cell is ".", Num is the cell's number or -1 (always -1
\* on a black cell), Solution is the cell's character, or the empty string on a
\* black cell.  No call of Cell changes the puzzle.
C13_CellLookup ==
    [][ (res'.op = "Cell" /\ ShapeOK(p)) =>
          LET i == res'.at[1]
              j == res'.at[2]
              c == res'.cell
          IN  /\ p' = p
              /\ pc' = "returned"
              /\ res'.err = "the provided coordinates are out of bounds for this puzzle"
                    <=> (i < 0 \/ i >= p.Rows \/ j < 0 \/ j >= p.Cols)
              /\ res'.err \in {"nil", "the provided coordinates are out of bounds for this puzzle"}
              /\ res'.err = "nil" =>
                    /\ c.Coords = <<i, j>>
                    /\ c.Black <=> p.solution[i + 1][j + 1] = 46
                    /\ c.Num = RefNumAt(p.solution, i, j)
                    /\ c.Black => (c.Num = -1 /\ c.Solution = <<>>)
                    /\ ~c.Black => /\ Len(c.Solution) \in {1, 2}
                                   /\ RuneOf(c.Solution) = p.solution[i + 1][j + 1] ]_vars

\* the cell (2, 0) of the grid of TestCell: "M", number 5
C13_Witness ==
    /\ res.op = "Cell" /\ res.err = "nil" /\ res.at = <<2, 0>>
    /\ p.solution = CatchGrid
    /\ res.cell.Num = 5 /\ res.cell.Solution = <<77>> /\ ~res.cell.Black

\* the last call was a SetSolution or a Load that returned no error
Succeeded == res.op \in {"SetSolution", "Load"} /\ pc = "returned" /\ res.err = "nil"

\* a list of clues whose numbers go strictly up
Increasing(clues) ==
    \A t \in 1..Len(clues) : \A u \in 1..Len(clues) : t < u => clues[t].Num < clues[u].Num

\* C14: after every successful SetSolution or Load the numbered cells are exactly
\* the cells that start an across or a down entry, their numbers are 0..k-1 and go
\* up in row-major order, each clue list is strictly increasing in number, and the
\* two lists together have one slot per (cell, direction) start, whatever the clue
\* count the file declares.
C14_NumberingInvariants ==
    Succeeded =>
        LET b == Layout(p.solution)
        IN  /\ {e.coords : e \in p.cellCoords}
                  = { <<k \div LayoutCols(b), k % LayoutCols(b)>> :
                        k \in RefAcrossStarts(b) \cup RefDownStarts(b) }
            /\ \A e \in p.cellCoords : \A g \in p.cellCoords :
                  e.coords = g.coords => e.num = g.num
            /\ {e.num : e \in p.cellCoords} = 0..(Cardinality(p.cellCoords) - 1)
            /\ \A e \in p.cellCoords : \A g \in p.cellCoords :
                  (e.coords[1] * p.Cols + e.coords[2] < g.coords[1] * p.Cols + g.coords[2])
                  => e.num < g.num
            /\ Increasing(p.cluesAcross)
            /\ Increasing(p.cluesDown)
            /\ Len(p.cluesAcross) + Len(p.cluesDown)
                  = Cardinality(RefAcrossStarts(b)) + Cardinality(RefDownStarts(b))

\* a file that declares two clues was loaded into a grid with four entries
C14_Witness ==
    /\ res.op = "Load" /\ pc = "returned" /\ res.err = "nil"
    /\ Len(a.Clues) = 2
    /\ Len(p.cluesAcross) = 2 /\ Len(p.cluesDown) = 2
    /\ Cardinality(p.cellCoords) = 3

\* Load returned no error and the file held one clue per slot
LoadedExactly ==
    /\ Loaded /\ pc = "returned" /\ res.err = "nil"
    /\ Len(a.Clues) = Len(p.cluesAcross) + Len(p.cluesDown)

\* the place of a slot in the merge of the two lists by number, across before down
RankAcross(q, t) ==
    Cardinality({u \in 1..Len(q.cluesAcross) : q.cluesAcross[u].Num < q.cluesAcross[t].Num})
    + Cardinality({u \in 1..Len(q.cluesDown) : q.cluesDown[u].Num < q.cluesAcross[t].Num})
    + 1

RankDown(q, t) ==
    Cardinality({u \in 1..Len(q.cluesAcross) : q.cluesAcross[u].Num <= q.cluesDown[t].Num})
    + Cardinality({u \in 1..Len(q.cluesDown) : q.cluesDown[u].Num < q.cluesDown[t].Num})
    + 1

\* C15: when the file holds as many clues as the two lists have slots, after Load
\* the k-th text is in the k-th slot of the merge of the lists by number, the
\* across slot before the down slot of the same number; every slot has one text
\* and the numbers of the slots are those SetSolution gave.
C15_CluesMerged ==
    LoadedExactly =>
        /\ \A t \in 1..Len(p.cluesAcross) :
              p.cluesAcross[t].Clue = a.Clues[RankAcross(p, t)]
        /\ \A t \in 1..Len(p.cluesDown) :
              p.cluesDown[t].Clue = a.Clues[RankDown(p, t)]
        /\ {RankAcross(p, t) : t \in 1..Len(p.cluesAcross)}
              \cup {RankDown(p, t) : t \in 1..Len(p.cluesDown)} = 1..Len(a.Clues)
        /\ Nums(p.cluesAcross)
              = RefNums(Layout(a.Solution), RefAcrossStarts(Layout(a.Solution)))
        /\ Nums(p.cluesDown)
              = RefNums(Layout(a.Solution), RefDownStarts(Layout(a.Solution)))

\* "A." over "AA" with clues "a", "b": the down entry 0 has "a", the across entry 1 "b"
C15_Witness ==
    /\ LoadedExactly
    /\ a.Solution = Notched.grid
    /\ Nums(p.cluesDown) = <<0>> /\ Texts(p.cluesDown) = << <<97>> >>
    /\ Nums(p.cluesAcross) = <<1>> /\ Texts(p.cluesAcross) = << <<98>> >>

\* the numbers that are in the across list and in the down list
SharedNums(q) ==
    {q.cluesAcross[t].Num : t \in 1..Len(q.cluesAcross)}
    \cap {q.cluesDown[t].Num : t \in 1..Len(q.cluesDown)}

\* C16, as stated: no number that SetSolution produces is in both the across list
\* and the down list, so the two front slots of loadClues never carry one number.
C16_NoSharedNumber ==
    (Loaded /\ pc = "returned" /\ res.err = "nil") => SharedNums(p) = {}

\* C16, amended: a number is in both lists exactly when its cell starts an across
\* and a down entry; no list holds a number twice; and at such a tie loadClues
\* gives the across slot the text that comes right before the text of the down slot.
C16_SharedNumberIffSharedStart ==
    (Loaded /\ pc = "returned" /\ res.err = "nil") =>
        LET b == Layout(a.Solution)
        IN  /\ SharedNums(p)
                  = {RefNum(b, k) : k \in RefAcrossStarts(b) \cap RefDownStarts(b)}
            /\ Increasing(p.cluesAcross)
            /\ Increasing(p.cluesDown)
            /\ LoadedExactly =>
                  \A t \in 1..Len(p.cluesAcross) : \A u \in 1..Len(p.cluesDown) :
                      p.cluesAcross[t].Num = p.cluesDown[u].Num =>
                          \E k \in 1..(Len(a.Clues) - 1) :
                              /\ p.cluesAcross[t].Clue = a.Clues[k]
                              /\ p.cluesDown[u].Clue = a.Clues[k + 1]

\* two rows "AA" with clues "a".."d": 0 is in both lists, "a" across and "b" down
C16_Witness ==
    /\ LoadedExactly
    /\ a.Solution = Square.grid
    /\ SharedNums(p) = {0}
    /\ Nums(p.cluesAcross) = <<0, 2>> /\ Texts(p.cluesAcross) = << <<97>>, <<100>> >>
    /\ Nums(p.cluesDown) = <<0, 1>> /\ Texts(p.cluesDown) = << <<98>>, <<99>> >>

\* C17: a Load that returns an error (no provider, truncation, scrambled puzzle,
\* checksums) leaves Rows, Cols, Title, Author, Copyright, Notes, the solution,
\* the cell numbers and the clue lists of the puzzle as they were before the call.
C17_FailedLoadCommitsNothing ==
    [][ (res'.op = "Load" /\ pc' = "returned" /\ res'.err # "nil") => p' = p ]_vars

\* a checksum error on a puzzle that holds the four clues of an earlier Load
C17_Witness ==
    /\ res.op = "Load" /\ pc = "returned" /\ res.err = ErrChecksum
    /\ p.solution = Square.grid /\ p.Notes = <<78>>
    /\ Texts(p.cluesAcross) = << <<97>>, <<100>> >>
    /\ Texts(p.cluesDown) = << <<98>>, <<99>> >>

====
